---------------------------- MODULE Spec2Model ----------------------------
(***************************************************************************)
(* Model of src/python/dw_etl_tests.py: the staged validation harness of   *)
(* the Global Electronics data warehouse (smoke -> critical -> extended).  *)
(*                                                                         *)
(* The warehouse is seen through the outcome of every SQL statement the    *)
(* checks issue (db).  Each test_* method is an operator from db to the    *)
(* outcome of the call: what it returned (or that it raised), whether it   *)
(* logged a warning, whether execute_query/execute_procedure logged a      *)
(* failure, and the quality_checks lines it built.  TestRunner and the     *)
(* __main__ block are the state machine.                                   *)
(***************************************************************************)
EXTENDS Integers, Sequences, FiniteSets, TLC

VARIABLES
    arg,        \* sys.argv[1].lower(), or "none" when no argument is given
    pc,         \* position of the process in __main__ / TestRunner ("exit"
                \* and "interrupted" once it has ended)
    cur,        \* tier whose run_<tier>_tests loop is (or was last) running
    idx,        \* 1-based position in that loop's `tests` list
    db,         \* the warehouse, as the outcome of each statement
    results,    \* tier -> the `results` list of its run_<tier>_tests call
    log,        \* tier -> what each executed check logged and returned
    passed,     \* tier -> return value of run_<tier>_tests ("unset" before)
    success,    \* `success` of __main__ ("unset" before it is assigned)
    exitCode,   \* process exit code as <<code>> (<<>> until the process ends)
    etlCalls,   \* number of CALL bl_cl.sp_run_full_etl() issued so far
    executor    \* execute_query/execute_procedure: the call in progress and
                \* the connections of the process

vars == <<arg, pc, cur, idx, db, results, log, passed, success, exitCode, etlCalls,
          executor>>

-----------------------------------------------------------------------------
(* Bounds of the model *)

\* largest row count of a table in the gate-controller specification
MaxCount == 2
\* largest staging/fact row count in the flow-consistency specification
MaxFlow == 20
\* largest row count of a data_source table in the source-data specification
MaxSrc == 2
\* largest NULL count of a key column in the data-quality specification
MaxNull == 1
\* largest sentinel (-1) count per dimension of the fact table
MaxRef == 1
\* longest benchmark, in tenths of a second above the threshold
MaxOver == 1
\* largest number of product versions and of customers in the SCD specification
MaxScd == 2
\* largest number of execute_query/execute_procedure calls in the executor
\* specification
MaxCalls == 3

-----------------------------------------------------------------------------
(* Program constants *)

\* every run_<tier>_tests builds a `tests` list of four methods
NChecks == 4
\* `staging_sales * 0.1`: the allowed variance is one tenth of staging
VarianceDivisor == 10
\* `r['duration'] > 10.0`, in tenths of a second
SlowThreshold == 100

Tiers == {"smoke", "critical", "extended"}

required_schemas == {"data_source", "staging", "bl_3nf", "bl_dm", "bl_cl"}

source_tables == <<"sales", "customers", "products", "stores">>

\* keys of validation_queries of test_data_validation_post_etl, in dict order
validation_queries ==
    << "staging_sales", "staging_customers", "staging_products", "staging_stores",
       "3nf_sales", "3nf_products_scd", "3nf_subcategories", "3nf_categories",
       "3nf_stores", "3nf_customers", "3nf_cities", "3nf_states",
       "3nf_countries", "3nf_continents", "dm_customers", "dm_products",
       "dm_stores", "fact_sales" >>

\* keys of validation_queries of test_full_etl_pipeline (the same statements)
pipeline_queries ==
    << "staging_sales", "dm_customers", "dm_products", "dm_stores", "fact_sales" >>

\* (table, column) pairs of null_checks, by table
null_checks == <<"sales", "customers", "products", "stores">>

\* names of the three performance_tests
performance_tests == <<"fact_aggregation", "by_category", "by_geography">>

Range(s) == { s[i] : i \in DOMAIN s }

\* every SELECT COUNT(*) statement of the suite, named by what it counts
CountQueries ==
    { "src_" \o t : t \in Range(source_tables) }
    \cup { "etl_log" }
    \cup Range(validation_queries)
    \cup { "nulls_" \o t : t \in Range(null_checks) }

-----------------------------------------------------------------------------
(* The warehouse *)

\* outcome of one statement: it raised (ok = FALSE) or returned v
Ok(v) == [ok |-> TRUE, v |-> v]
CountErr == [ok |-> FALSE, v |-> 0]
SetErr == [ok |-> FALSE, v |-> {}]
NoRefs == [missing_products |-> 0, missing_customers |-> 0, missing_stores |-> 0]
RefErr == [ok |-> FALSE, v |-> NoRefs]
NoScd == [total_products |-> 0, inactive_products |-> 0]
ScdErr == [ok |-> FALSE, v |-> NoScd]

\* a loaded warehouse on which every check passes without a warning
Healthy ==
    [ up       |-> TRUE,
      version  |-> Ok(1),
      schemas  |-> Ok(required_schemas),
      count    |-> [q \in CountQueries |->
                       IF q \in { "nulls_" \o t : t \in Range(null_checks) }
                       THEN Ok(0) ELSE Ok(1)],
      proc     |-> TRUE,
      refint   |-> Ok(NoRefs),
      scd2     |-> Ok([total_products |-> 1, inactive_products |-> 0]),
      dates    |-> Ok(1),
      geo      |-> Ok(1),
      perf     |-> [p \in Range(performance_tests) |-> Ok(1)],
      lineage  |-> Ok(1),
      tracking |-> Ok(1) ]

\* a connection that is there even when the server is down
execute_query_IgnoresDown(d, r) == r

\* psycopg2.connect raises when the server is down, whatever the statement
execute_query(d, r) == IF d.up THEN r ELSE [r EXCEPT !.ok = FALSE]

\* execute_procedure: TRUE when the CALL was committed, FALSE when it raised
execute_procedure(d) == d.up /\ d.proc

-----------------------------------------------------------------------------
(* What one call of a test method yields *)

\* ret: "True"/"False" returned, or "Raise" when an exception left the method;
\* warn: a warning was logged (logger.warning, or a quality_checks line led
\* by the warning sign); qfail: execute_query/execute_procedure logged a
\* failure during the call; lines: the quality_checks list
Out(ret, warn, qfail, lines) ==
    [ret |-> ret, warn |-> warn, qfail |-> qfail, lines |-> lines]

Bool(b) == IF b THEN "True" ELSE "False"

-----------------------------------------------------------------------------
(* SmokeTests *)

test_database_connectivity(d) ==
    LET result == execute_query(d, d.version)
    IN  IF ~result.ok THEN Out("False", FALSE, TRUE, <<>>)
        \* assert len(result) > 0: an AssertionError is caught by the same except
        ELSE Out(Bool(result.v > 0), FALSE, FALSE, <<>>)

\* no try/except around execute_query: its exception leaves the method
test_schemas_exist(d) ==
    LET res == execute_query(d, d.schemas)
    IN  IF ~res.ok THEN Out("Raise", FALSE, TRUE, <<>>)
        ELSE LET missing_schemas == required_schemas \ res.v
             IN  Out(Bool(missing_schemas = {}), FALSE, FALSE, <<>>)

\* the for loop over source_tables from position i on, total_rows and the
\* warning flag accumulated so far
RECURSIVE SourceLoop(_, _, _, _)
SourceLoop(d, i, total_rows, warned) ==
    IF i > Len(source_tables)
    THEN Out(Bool(total_rows # 0), warned, FALSE, <<>>)
    ELSE LET result == execute_query(d, d.count["src_" \o source_tables[i]])
         IN  IF ~result.ok THEN Out("False", warned, TRUE, <<>>)
             ELSE SourceLoop(d, i + 1, total_rows + result.v, warned \/ result.v = 0)

\* as SourceLoop, but an empty table fails the check at once
RECURSIVE SourceLoop_EmptyTableFails(_, _, _, _)
SourceLoop_EmptyTableFails(d, i, total_rows, warned) ==
    IF i > Len(source_tables)
    THEN Out(Bool(total_rows # 0), warned, FALSE, <<>>)
    ELSE LET result == execute_query(d, d.count["src_" \o source_tables[i]])
         IN  IF ~result.ok THEN Out("False", warned, TRUE, <<>>)
             ELSE IF result.v = 0 THEN Out("False", TRUE, FALSE, <<>>)
             ELSE SourceLoop_EmptyTableFails(d, i + 1, total_rows + result.v, warned)

test_source_data_exists_EmptyTableFails(d) == SourceLoop_EmptyTableFails(d, 1, 0, FALSE)

test_source_data_exists(d) == SourceLoop(d, 1, 0, FALSE)

test_etl_log_table(d) ==
    LET result == execute_query(d, d.count["etl_log"])
    IN  Out(Bool(result.ok), FALSE, ~result.ok, <<>>)

-----------------------------------------------------------------------------
(* CriticalTests *)

Abs(x) == IF x < 0 THEN 0 - x ELSE x

test_full_etl_execution(d) ==
    LET done == execute_procedure(d)
    IN  Out(Bool(done), FALSE, ~done, <<>>)

\* abs(staging_sales - fact_sales) > staging_sales * 0.1.  The product is a
\* double; it is never below the exact tenth and never reaches the next
\* integer for counts below 2^50, so on integers the test is the exact one.
ExceedsVariance_AtLeast(staging_sales, fact_sales) ==
    Abs(staging_sales - fact_sales) * VarianceDivisor >= staging_sales

ExceedsVariance(staging_sales, fact_sales) ==
    Abs(staging_sales - fact_sales) * VarianceDivisor > staging_sales

\* "Validate data flow consistency": the part after the query loop
FlowConsistency(staging_sales, fact_sales) ==
    IF staging_sales > 0
    THEN IF fact_sales = 0
         THEN Out("False", FALSE, FALSE, <<>>)
         ELSE Out("True", ExceedsVariance(staging_sales, fact_sales), FALSE, <<>>)
    ELSE Out("True", FALSE, FALSE, <<>>)

\* the loop `for name, query in validation_queries.items()` returns False at
\* the first statement that raises, so it completes iff none of them raises
QueriesSucceed(d, names) ==
    \A i \in DOMAIN names : execute_query(d, d.count[names[i]]).ok

test_data_validation_post_etl(d) ==
    IF ~QueriesSucceed(d, validation_queries)
    THEN Out("False", FALSE, TRUE, <<>>)
    ELSE FlowConsistency(d.count["staging_sales"].v, d.count["fact_sales"].v)

\* one entry of quality_checks: its leading symbol, its wording, its subject
Line(mark, text, about) == [mark |-> mark, text |-> text, about |-> about]

\* `"NULL values" in check`: both wordings of the NULL lines contain it; the
\* other lines, and PostgreSQL's message for a failed SELECT, do not
ContainsNULLvalues(l) == l.text \in {"NULL values", "No NULL values"}

\* a test that lets a single NULL through
NullLine_MoreThanOne(table, null_count) ==
    IF null_count > 1 THEN Line("cross", "NULL values", table)
    ELSE Line("check", "No NULL values", table)

\* the line appended for one (table, column) of null_checks
NullLine(table, null_count) ==
    IF null_count > 0 THEN Line("cross", "NULL values", table)
    ELSE Line("check", "No NULL values", table)

\* the lines of "Check 2", from the try block or from its except clause
RefLines(d) ==
    LET result == execute_query(d, d.refint)
        stats == result.v
        Opt(c, l) == IF c THEN <<l>> ELSE <<>>
    IN  IF ~result.ok
        THEN << Line("cross", "Could not verify referential integrity", "fct_sales") >>
        ELSE << Line("info", "Total sales", "fct_sales") >>
             \o Opt(stats.missing_products > 0,
                    Line("warning", "Missing product references", "fct_sales"))
             \o Opt(stats.missing_customers > 0,
                    Line("warning", "Missing customer references", "fct_sales"))
             \o Opt(stats.missing_stores > 0,
                    Line("warning", "Missing store references", "fct_sales"))
             \o Opt(stats.missing_products = 0 /\ stats.missing_customers = 0
                        /\ stats.missing_stores = 0,
                    Line("check", "All fact table references resolved", "fct_sales"))

\* a list comprehension that also counts an unresolved reference as critical
critical_issues_WithRefs(quality_checks) ==
    SelectSeq(quality_checks, LAMBDA l : l.mark \in {"cross", "warning"})

\* [check for check in quality_checks if "NULL values" in check and "X" in check], X being the cross mark
critical_issues(quality_checks) ==
    SelectSeq(quality_checks, LAMBDA l : ContainsNULLvalues(l) /\ l.mark = "cross")

\* the NULL statements are outside any try: the first that raises leaves the method
test_data_quality_checks(d) ==
    LET nulls == [i \in DOMAIN null_checks |->
                     execute_query(d, d.count["nulls_" \o null_checks[i]])]
    IN  IF \E i \in DOMAIN null_checks : ~nulls[i].ok
        THEN Out("Raise", FALSE, TRUE, <<>>)
        ELSE LET quality_checks ==
                     [i \in DOMAIN null_checks |-> NullLine(null_checks[i], nulls[i].v)]
                     \o RefLines(d)
             IN  Out(Bool(Len(critical_issues(quality_checks)) = 0),
                     \E i \in DOMAIN quality_checks : quality_checks[i].mark = "warning",
                     ~execute_query(d, d.refint).ok,
                     quality_checks)

\* a history test that takes the absence of historical versions for an error
Scd2Lines_NeedsHistory(stats) ==
    << Line("check", "SCD Type 2 Products", "products"),
       IF stats.inactive_products > 0
       THEN Line("check", "historical product versions", "products")
       ELSE Line("cross", "No historical versions", "products") >>

\* `if scd2_results:` the two lines logged about bl_3nf.ce_products_scd
Scd2Lines(stats) ==
    << Line("check", "SCD Type 2 Products", "products"),
       IF stats.inactive_products > 0
       THEN Line("check", "historical product versions", "products")
       ELSE Line("info", "No historical versions yet", "products") >>

\* the whole body is one try block: either statement raising returns False
test_scd_functionality(d) ==
    LET scd2_results == execute_query(d, d.scd2)
        scd1_results == execute_query(d, d.count["3nf_customers"])
        customer_count == scd1_results.v
        failed == Line("cross", "SCD functionality test failed", "scd")
    IN  IF ~scd2_results.ok THEN Out("False", FALSE, TRUE, <<failed>>)
        ELSE IF ~scd1_results.ok
        THEN Out("False", FALSE, TRUE, Scd2Lines(scd2_results.v) \o <<failed>>)
        ELSE IF customer_count > 0
        THEN Out("True", FALSE, FALSE, Scd2Lines(scd2_results.v)
                   \o << Line("check", "SCD Type 1 Customers", "customers") >>)
        ELSE Out("False", FALSE, FALSE, Scd2Lines(scd2_results.v)
                   \o << Line("cross", "No customers found", "customers") >>)

-----------------------------------------------------------------------------
(* ExtendedTests *)

test_full_etl_pipeline(d) ==
    IF ~execute_procedure(d) \/ ~QueriesSucceed(d, pipeline_queries)
    THEN Out("False", FALSE, TRUE, <<>>)
    ELSE Out(Bool(~(d.count["staging_sales"].v > 0 /\ d.count["fact_sales"].v = 0)),
             FALSE, FALSE, <<>>)

test_business_rules_validation(d) ==
    LET date_results == execute_query(d, d.dates)
        geo_results == execute_query(d, d.geo)
    IN  Out(Bool(date_results.ok /\ geo_results.ok), FALSE,
            ~(date_results.ok /\ geo_results.ok), <<>>)

\* one entry of performance_results, as the line logged for it
BenchmarkLine(name, result) ==
    IF result.ok THEN Line("check", "SUCCESS", name)
    ELSE Line("cross", "FAILED", name)

\* `for test in performance_tests`: every benchmark runs inside its own
\* try/except, which appends one entry whether the statement raised or not
RECURSIVE BenchmarkLoop(_, _, _)
BenchmarkLoop(d, i, performance_results) ==
    IF i > Len(performance_tests) THEN performance_results
    ELSE LET result == execute_query(d, d.perf[performance_tests[i]])
             entry == [line |-> BenchmarkLine(performance_tests[i], result),
                       duration |-> result]
         IN  BenchmarkLoop(d, i + 1, Append(performance_results, entry))

\* a threshold that the duration only has to reach
IsSlow_AtLeast(r) == r.duration.ok /\ r.duration.v >= SlowThreshold

\* `r['duration'] and r['duration'] > 10.0`: duration is None after a failure
IsSlow(r) == r.duration.ok /\ r.duration.v > SlowThreshold

\* slow benchmarks only log a warning; the method returns whether all succeeded
test_performance_benchmarks(d) ==
    LET performance_results == BenchmarkLoop(d, 1, <<>>)
        slow_queries == SelectSeq(performance_results, IsSlow)
        succeeded == SelectSeq(performance_results, LAMBDA r : r.duration.ok)
    IN  Out(Bool(Len(succeeded) = Len(performance_tests)),
            Len(slow_queries) > 0,
            Len(succeeded) # Len(performance_results),
            [i \in DOMAIN performance_results |-> performance_results[i].line])

test_data_lineage_and_audit_trail(d) ==
    LET log_results == execute_query(d, d.lineage)
        source_results == execute_query(d, d.tracking)
    IN  Out(Bool(log_results.ok /\ source_results.ok), FALSE,
            ~(log_results.ok /\ source_results.ok), <<>>)

-----------------------------------------------------------------------------
(* The stored procedure *)

\* a suite whose SCD test runs the procedure as well
CallsEtl_WithScd ==
    {"test_full_etl_execution", "test_full_etl_pipeline", "test_scd_functionality"}

\* methods that call execute_procedure('bl_cl.sp_run_full_etl')
CallsEtl == {"test_full_etl_execution", "test_full_etl_pipeline"}

\* What a committed CALL bl_cl.sp_run_full_etl() may leave behind.  The
\* procedure is SQL outside this program; of its effects the model keeps
\* the reload of bl_dm.fct_sales from staging.sales, which may or may not
\* change the fact row count.
EtlEffects(d) ==
    {d} \cup
    IF d.count["staging_sales"].ok /\ d.count["fact_sales"].ok
    THEN {[d EXCEPT !.count["fact_sales"] = d.count["staging_sales"]]}
    ELSE {}

\* the warehouses one call of the method may leave behind
Effects(name, d) ==
    IF name \in CallsEtl /\ execute_procedure(d) THEN EtlEffects(d) ELSE {d}

-----------------------------------------------------------------------------
(* TestRunner *)

\* the `tests` list of run_smoke_tests, run_critical_tests, run_extended_tests
tests ==
    [ smoke    |-> << "test_database_connectivity", "test_schemas_exist",
                      "test_source_data_exists", "test_etl_log_table" >>,
      critical |-> << "test_full_etl_execution", "test_data_validation_post_etl",
                      "test_data_quality_checks", "test_scd_functionality" >>,
      extended |-> << "test_full_etl_pipeline", "test_business_rules_validation",
                      "test_performance_benchmarks",
                      "test_data_lineage_and_audit_trail" >> ]

\* test(): the bound method called on the warehouse as it is
Call(name, d) ==
    CASE name = "test_database_connectivity"        -> test_database_connectivity(d)
      [] name = "test_schemas_exist"                -> test_schemas_exist(d)
      [] name = "test_source_data_exists"           -> test_source_data_exists(d)
      [] name = "test_etl_log_table"                -> test_etl_log_table(d)
      [] name = "test_full_etl_execution"           -> test_full_etl_execution(d)
      [] name = "test_data_validation_post_etl"     -> test_data_validation_post_etl(d)
      [] name = "test_data_quality_checks"          -> test_data_quality_checks(d)
      [] name = "test_scd_functionality"            -> test_scd_functionality(d)
      [] name = "test_full_etl_pipeline"            -> test_full_etl_pipeline(d)
      [] name = "test_business_rules_validation"    -> test_business_rules_validation(d)
      [] name = "test_performance_benchmarks"       -> test_performance_benchmarks(d)
      [] name = "test_data_lineage_and_audit_trail" -> test_data_lineage_and_audit_trail(d)

\* what the log holds of one call: each method logs its title first; wrote
\* tells whether the call left the warehouse other than it found it
Entry(name, out, wrote) ==
    [name |-> name, ret |-> out.ret, warn |-> out.warn, qfail |-> out.qfail,
     lines |-> out.lines, wrote |-> wrote]

\* try: results.append(test())  except Exception: results.append(False)
Recorded(out) == out.ret = "True"

\* a loop whose try/except is missing: the exception ends the tier
NextIndex_AbortOnRaise(i, out) == IF out.ret = "Raise" THEN NChecks + 1 ELSE i + 1

\* the for loop goes on to the next test whatever the call did
NextIndex(i, out) == i + 1

\* any(results)
All_Any(rs) == \E i \in DOMAIN rs : rs[i]

\* all(results)
All(rs) == \A i \in DOMAIN rs : rs[i]

\* a controller that also stops when the critical tier failed
GateStops_AnyTier(tier, tier_passed) == tier_passed = "False"

\* a controller that never stops
GateStops_Never(tier, tier_passed) == FALSE

\* run_all_tests: `if not smoke_passed: return False`; after the critical
\* tier the failure is only logged
GateStops(tier, tier_passed) == tier = "smoke" /\ tier_passed = "False"

\* a summary that forgets the extended tier
OverallVerdict_NoExtended(smoke_passed, critical_passed, extended_passed) ==
    smoke_passed = "True" /\ critical_passed = "True"

\* return smoke_passed and critical_passed and extended_passed
OverallVerdict(smoke_passed, critical_passed, extended_passed) ==
    smoke_passed = "True" /\ critical_passed = "True" /\ extended_passed = "True"

NextTier(tier) == IF tier = "smoke" THEN "critical" ELSE "extended"

-----------------------------------------------------------------------------
(* Actions *)

\* a command line that runs the smoke tier whatever tier was asked for
FirstTier_AlwaysSmoke(a) == "smoke"

\* the tier whose run_<tier>_tests is called first: run_all_tests starts with
\* the smoke tier, a tier argument calls that tier's method directly
FirstTier(a) == IF a = "none" THEN "smoke" ELSE a

\* __main__: the argument selects one tier, the whole suite, or the usage text
Dispatch ==
    /\ pc = "main"
    /\ IF arg \in Tiers \cup {"none"}
       THEN /\ cur' = FirstTier(arg)
            /\ pc' = "tier"
            /\ exitCode' = exitCode
       ELSE /\ cur' = cur
            /\ pc' = "exit"
            /\ exitCode' = <<1>>
    /\ idx' = 1
    /\ UNCHANGED <<arg, db, results, log, passed, success, etlCalls, executor>>

\* one iteration of `for test in tests`
RunCheck ==
    /\ pc = "tier"
    /\ idx <= NChecks
    /\ LET name == tests[cur][idx]
       IN  /\ db' \in Effects(name, db)
           /\ etlCalls' = etlCalls + (IF name \in CallsEtl THEN 1 ELSE 0)
           /\ LET out == Call(name, db')
              IN  /\ results' = [results EXCEPT ![cur] = Append(@, Recorded(out))]
                  /\ log' = [log EXCEPT ![cur] = Append(@, Entry(name, out, db' # db))]
                  /\ idx' = NextIndex(idx, out)
    /\ UNCHANGED <<arg, pc, cur, passed, success, exitCode, executor>>

\* `return all(results)`, to run_all_tests or to __main__
FinishTier ==
    /\ pc = "tier"
    /\ idx > NChecks
    /\ passed' = [passed EXCEPT ![cur] = Bool(All(results[cur]))]
    /\ IF arg = "none"
       THEN pc' = "gate" /\ success' = success
       ELSE pc' = "report" /\ success' = passed'[cur]
    /\ UNCHANGED <<arg, cur, idx, db, results, log, exitCode, etlCalls, executor>>

\* run_all_tests returns False without running the later tiers
StopAtGate ==
    /\ pc = "gate"
    /\ cur # "extended"
    /\ GateStops(cur, passed[cur])
    /\ success' = "False"
    /\ pc' = "report"
    /\ UNCHANGED <<arg, cur, idx, db, results, log, passed, exitCode, etlCalls, executor>>

\* run_all_tests calls the next run_<tier>_tests
PassGate ==
    /\ pc = "gate"
    /\ cur # "extended"
    /\ ~GateStops(cur, passed[cur])
    /\ cur' = NextTier(cur)
    /\ idx' = 1
    /\ pc' = "tier"
    /\ UNCHANGED <<arg, db, results, log, passed, success, exitCode, etlCalls, executor>>

\* run_all_tests: the summary and the returned conjunction
Summary ==
    /\ pc = "gate"
    /\ cur = "extended"
    /\ success' = Bool(OverallVerdict(passed["smoke"], passed["critical"],
                                      passed["extended"]))
    /\ pc' = "report"
    /\ UNCHANGED <<arg, cur, idx, db, results, log, passed, exitCode, etlCalls, executor>>

\* __main__ prints the final status and falls off the end of the script
Report ==
    /\ pc = "report"
    /\ pc' = "exit"
    /\ exitCode' = <<0>>
    /\ UNCHANGED <<arg, cur, idx, db, results, log, passed, success, etlCalls, executor>>

\* a runner whose except clause also takes the interrupt for a failed test
AfterInterrupt_RecordsFalse(rs) == Append(rs, FALSE)

\* KeyboardInterrupt is no Exception: it passes the except clauses of the
\* test method and of the runner, and `results` gets nothing for the call
AfterInterrupt(rs) == rs

\* Ctrl-C at any point of the run; `during` tells that the test at idx had
\* been entered.  The exception unwinds to __main__, which prints that the
\* run was interrupted and falls off the end of the script.
Interrupt(during) ==
    /\ pc \in {"main", "tier", "gate", "report"}
    /\ during => (pc = "tier" /\ idx <= NChecks)
    /\ IF during
       THEN LET name == tests[cur][idx]
            IN  /\ db' \in Effects(name, db)
                /\ etlCalls' = etlCalls + (IF name \in CallsEtl THEN 1 ELSE 0)
                /\ log' = [log EXCEPT ![cur] =
                             Append(@, Entry(name, Out("Interrupted", FALSE, FALSE, <<>>),
                                             db' # db))]
                /\ results' = [results EXCEPT ![cur] = AfterInterrupt(@)]
       ELSE UNCHANGED <<db, etlCalls, log, results>>
    /\ pc' = "interrupted"
    /\ exitCode' = <<0>>
    /\ UNCHANGED <<arg, cur, idx, passed, success, executor>>

-----------------------------------------------------------------------------
(* execute_query and execute_procedure, statement by statement *)

runner == <<arg, pc, cur, idx, db, results, log, passed, success, exitCode, etlCalls>>

\* pc: where the call is ("idle" between calls, "caller" while the caller
\* handles the exception); open: connections whose socket is open; held: how
\* many of them a frame or a traceback of the call still refers to
NoCall ==
    [pc |-> "idle", kind |-> "query", path |-> "success", calls |-> 0,
     open |-> 0, held |-> 0]

Kinds == {"query", "procedure"}

\* how a call may go; only execute_query reads a result set
ExitPaths(kind) ==
    {"success", "connect_error", "query_error"}
    \cup (IF kind = "query" THEN {"malformed_result"} ELSE {})

\* `with psycopg2.connect(**self.config.db_config) as conn`: one connection
\* per call, or the exception of connect
Connect(kind, path) ==
    /\ executor.pc = "idle"
    /\ executor.calls < MaxCalls
    /\ executor' =
          IF path = "connect_error"
          THEN [executor EXCEPT !.pc = "except", !.kind = kind, !.path = path,
                                !.calls = @ + 1]
          ELSE [executor EXCEPT !.pc = "with", !.kind = kind, !.path = path,
                                !.calls = @ + 1, !.open = @ + 1, !.held = 1]
    /\ UNCHANGED runner

\* the body of the with block and the connection's __exit__, which commits
\* or rolls back the transaction and leaves the connection open
WithBlock ==
    /\ executor.pc = "with"
    /\ executor' = [executor EXCEPT
                       !.pc = IF executor.path = "success" THEN "return" ELSE "except"]
    /\ UNCHANGED runner

\* the value is returned and the frame, the last reference to conn, is gone
Return ==
    /\ executor.pc = "return"
    /\ executor' = [executor EXCEPT !.pc = "idle", !.held = 0]
    /\ UNCHANGED runner

\* except Exception as e: logger.error(...); raise.  The traceback of the
\* exception refers to the frame, and the frame to conn
Reraise ==
    /\ executor.pc = "except"
    /\ executor' = [executor EXCEPT !.pc = "caller"]
    /\ UNCHANGED runner

\* the except clause of the test method or of the runner is left
Handled ==
    /\ executor.pc = "caller"
    /\ executor' = [executor EXCEPT !.pc = "idle", !.held = 0]
    /\ UNCHANGED runner

\* the finalizer of a connection object nothing refers to closes its socket;
\* when it runs is up to the interpreter
Finalize ==
    /\ executor.open > executor.held
    /\ executor' = [executor EXCEPT !.open = @ - 1]
    /\ UNCHANGED runner

-----------------------------------------------------------------------------
(* Initial states *)

CountOutcomes(max) == {CountErr} \cup { Ok(n) : n \in 0..max }

\* statements whose count decides a verdict; the others are only logged
DecidingCounts ==
    { "src_" \o t : t \in Range(source_tables) }
    \cup { "nulls_" \o t : t \in Range(null_checks) }
    \cup { "staging_sales", "fact_sales", "3nf_customers" }

SmokeQueries == { "src_" \o t : t \in Range(source_tables) } \cup { "etl_log" }

CountVariants(d, qs, max) ==
    { [d EXCEPT !.count[q] = o] :
        q \in qs,
        o \in CountOutcomes(max) }

\* d, or d with one statement read by the smoke tier answering differently
SmokeVariants(d) ==
    { d, [d EXCEPT !.up = FALSE], [d EXCEPT !.version = CountErr],
      [d EXCEPT !.schemas = SetErr],
      [d EXCEPT !.schemas = Ok(required_schemas \ {"bl_cl"})] }
    \cup CountVariants(d, SmokeQueries \cap DecidingCounts, MaxCount)
    \cup CountVariants(d, SmokeQueries \ DecidingCounts, 0)

RefCounts(max) ==
    [missing_products : 0..max, missing_customers : 0..max, missing_stores : 0..max]

\* d, or d with one statement read by the critical tier answering differently
CriticalVariants(d) ==
    { d, [d EXCEPT !.proc = FALSE], [d EXCEPT !.refint = RefErr],
      [d EXCEPT !.scd2 = ScdErr],
      [d EXCEPT !.scd2 = Ok([total_products |-> 0, inactive_products |-> 0])],
      [d EXCEPT !.scd2 = Ok([total_products |-> 2, inactive_products |-> 1])] }
    \cup { [d EXCEPT !.refint = Ok(r)] : r \in RefCounts(MaxRef) }
    \cup CountVariants(d, (CountQueries \ SmokeQueries) \cap DecidingCounts, MaxCount)
    \cup CountVariants(d, (CountQueries \ SmokeQueries) \ DecidingCounts, 0)

\* d, or d with one statement read only by the extended tier answering differently
ExtendedVariants(d) ==
    { d, [d EXCEPT !.dates = CountErr], [d EXCEPT !.dates = Ok(0)],
      [d EXCEPT !.geo = CountErr], [d EXCEPT !.geo = Ok(0)],
      [d EXCEPT !.lineage = CountErr], [d EXCEPT !.lineage = Ok(0)],
      [d EXCEPT !.tracking = CountErr], [d EXCEPT !.tracking = Ok(0)] }
    \cup { [d EXCEPT !.perf[p] = o] :
             p \in Range(performance_tests),
             o \in {CountErr, Ok(SlowThreshold), Ok(SlowThreshold + 1)} }

\* a healthy warehouse with one deviation seen by the smoke tier, or with at
\* most one seen by the critical tier and at most one seen by the extended tier
Warehouses ==
    SmokeVariants(Healthy)
    \cup UNION { ExtendedVariants(c) : c \in CriticalVariants(Healthy) }

Args == {"none", "smoke", "critical", "extended", "all"}

InitRun(args, warehouses) ==
    /\ arg \in args
    /\ db \in warehouses
    /\ pc = "main"
    /\ cur = "none"
    /\ idx = 1
    /\ results = [t \in Tiers |-> <<>>]
    /\ log = [t \in Tiers |-> <<>>]
    /\ passed = [t \in Tiers |-> "unset"]
    /\ success = "unset"
    /\ exitCode = <<>>
    /\ etlCalls = 0
    /\ executor = NoCall

-----------------------------------------------------------------------------
(* Specifications *)

\* the command line with any argument, on each of Warehouses
Init == InitRun(Args, Warehouses)

Next ==
    \/ Dispatch
    \/ RunCheck
    \/ FinishTier
    \/ StopAtGate
    \/ PassGate
    \/ Summary
    \/ Report

Spec == Init /\ [][Next]_vars

\* `python dw_etl_tests.py <tier>`: run_all_tests and its gate are not entered
NextSingle ==
    \/ Dispatch
    \/ RunCheck
    \/ FinishTier
    \/ Report

\* every outcome of the two statements the flow-consistency test compares
FlowWarehouses ==
    { [Healthy EXCEPT !.count["staging_sales"] = a, !.count["fact_sales"] = b] :
        a \in CountOutcomes(MaxFlow),
        b \in CountOutcomes(MaxFlow) }

InitFlow == InitRun({"critical"}, FlowWarehouses)

SpecFlow == InitFlow /\ [][NextSingle]_vars

\* every outcome of the four statements test_source_data_exists issues
SourceWarehouses ==
    { [Healthy EXCEPT !.count = [q \in CountQueries |->
                                    IF q \in DOMAIN c THEN c[q] ELSE @[q]]] :
        c \in [{ "src_" \o t : t \in Range(source_tables) } -> CountOutcomes(MaxSrc)] }

InitSource == InitRun({"smoke"}, SourceWarehouses)

SpecSource == InitSource /\ [][NextSingle]_vars

\* every outcome of the five statements test_data_quality_checks issues
QualityWarehouses ==
    { [Healthy EXCEPT !.refint = r,
                      !.count = [q \in CountQueries |->
                                    IF q \in DOMAIN c THEN c[q] ELSE @[q]]] :
        c \in [{ "nulls_" \o t : t \in Range(null_checks) } -> CountOutcomes(MaxNull)],
        r \in {RefErr} \cup { Ok(x) : x \in RefCounts(MaxRef) } }

InitQuality == InitRun({"critical"}, QualityWarehouses)

SpecQuality == InitQuality /\ [][NextSingle]_vars

\* the command line with any argument, interrupted at any point or not at all
InitInterrupt ==
    InitRun(Args, SmokeVariants(Healthy) \cup CriticalVariants(Healthy))

NextInterruptible ==
    \/ Next
    \/ \E during \in BOOLEAN : Interrupt(during)

SpecInterrupt == InitInterrupt /\ [][NextInterruptible]_vars

\* any sequence of calls of execute_query and execute_procedure
InitExecutor == InitRun({"none"}, {Healthy})

NextExecutor ==
    \/ \E kind \in Kinds : \E path \in ExitPaths(kind) : Connect(kind, path)
    \/ WithBlock
    \/ Return
    \/ Reraise
    \/ Handled
    \/ Finalize

SpecExecutor == InitExecutor /\ [][NextExecutor]_vars

\* how long a benchmark may take: a moment, or about the threshold
Durations == {1} \cup ((SlowThreshold - 1)..(SlowThreshold + MaxOver))

\* every outcome of the three statements test_performance_benchmarks times
PerfWarehouses ==
    { [Healthy EXCEPT !.perf = p] :
        p \in [Range(performance_tests) ->
                  {CountErr} \cup { Ok(t) : t \in Durations }] }

InitPerf == InitRun({"extended"}, PerfWarehouses)

SpecPerf == InitPerf /\ [][NextSingle]_vars

\* what scd2_query may count: the inactive versions are among the total
ScdStats ==
    UNION { { [total_products |-> t, inactive_products |-> n] : n \in 0..t } :
              t \in 0..MaxScd }

\* every outcome of the two statements test_scd_functionality issues
ScdWarehouses ==
    { [Healthy EXCEPT !.scd2 = s, !.count["3nf_customers"] = c] :
        s \in {ScdErr} \cup { Ok(x) : x \in ScdStats },
        c \in CountOutcomes(MaxScd) }

InitScd == InitRun({"critical"}, ScdWarehouses)

SpecScd == InitScd /\ [][NextSingle]_vars

-----------------------------------------------------------------------------
(* Vocabulary of the properties *)

\* the verdict of an executed check: Fail when the call did not return True
\* (it returned False or raised), Warn when it returned True after logging
\* a warning, Pass otherwise
Status(e) ==
    IF e.ret # "True" THEN "Fail" ELSE IF e.warn THEN "Warn" ELSE "Pass"

FullRun == arg = "none"

Returned == pc \in {"report", "exit"}

Ran(t) == passed[t] # "unset"

-----------------------------------------------------------------------------
(* Properties of the gate controller, checked under Spec *)

\* C1: in a full run, once the smoke tier has failed no critical and no
\* extended check is ever executed, the smoke tier's result is the only one,
\* and the verdict run_all_tests returns is False.
C1_HardGate ==
    (FullRun /\ passed["smoke"] = "False") =>
        /\ \A t \in {"critical", "extended"} :
              log[t] = <<>> /\ results[t] = <<>> /\ ~Ran(t)
        /\ etlCalls = 0
        /\ success # "True"
        /\ Returned => success = "False"

C1_Witness ==
    /\ FullRun /\ passed["smoke"] = "False" /\ pc = "exit"
    /\ Len(log["smoke"]) = NChecks

\* C2: in a full run where smoke passed and the critical tier failed, the
\* run does not return before the extended tier has run all its checks, the
\* returned verdict is False whatever the extended tier returned, and no
\* extended check is executed before the critical tier has finished.
C2_SoftGate ==
    /\ (FullRun /\ passed["smoke"] = "True" /\ passed["critical"] = "False"
            /\ Returned) =>
          /\ Len(log["extended"]) = NChecks
          /\ Ran("extended")
          /\ success = "False"
    /\ (FullRun /\ log["extended"] # <<>>) =>
          Len(log["critical"]) = NChecks /\ Ran("critical")

C2_Witness ==
    /\ FullRun /\ pc = "exit"
    /\ passed["smoke"] = "True" /\ passed["critical"] = "False"
    /\ passed["extended"] = "True"

\* C3: when all three tiers ran, the verdict of the full run is the
\* conjunction of the three tier verdicts.
C3_OverallVerdict ==
    (FullRun /\ Returned /\ \A t \in Tiers : Ran(t)) =>
        (success = "True" <=> \A t \in Tiers : passed[t] = "True")
        /\ success \in {"True", "False"}

C3_Witness ==
    /\ FullRun /\ pc = "exit"
    /\ passed["smoke"] = "True" /\ passed["critical"] = "True"
    /\ passed["extended"] = "False" /\ success = "False"

\* C4: a check that raises is recorded as a failure of that check and the
\* later checks of the tier still run: every tier that returned holds one
\* result per configured check, in the configured order.
C4_CheckIsolation ==
    \A t \in Tiers :
        /\ Len(results[t]) = Len(log[t])
        /\ Len(log[t]) <= NChecks
        /\ (pc = "tier" /\ cur = t) => Len(log[t]) = idx - 1
        /\ Ran(t) => Len(log[t]) = NChecks
        /\ \A i \in DOMAIN log[t] :
              /\ log[t][i].name = tests[t][i]
              /\ log[t][i].ret = "Raise" => results[t][i] = FALSE

C4_Witness ==
    /\ pc = "exit"
    /\ \E t \in Tiers : \E i \in 1..(NChecks - 1) :
          /\ Ran(t)
          /\ log[t][i].ret = "Raise"
          /\ Len(log[t]) = NChecks
          /\ \E j \in (i + 1)..NChecks : results[t][j] = TRUE

\* C5: a tier's passed flag is true iff none of its checks has status Fail;
\* a warning alone does not fail the tier.
C5_TierAggregation ==
    \A t \in Tiers :
        Ran(t) =>
            (passed[t] = "True" <=>
                \A i \in DOMAIN log[t] : Status(log[t][i]) # "Fail")

C5_Witness ==
    \E t \in Tiers :
        /\ passed[t] = "True"
        /\ \E i \in DOMAIN log[t] : Status(log[t][i]) = "Warn"

\* C6: whenever a statement issued by a check fails, that check returns
\* False: it neither returns True nor lets the exception reach the runner.
C6_QueryFailureIsFail ==
    \A t \in Tiers : \A i \in DOMAIN log[t] :
        log[t][i].qfail => log[t][i].ret = "False"

-----------------------------------------------------------------------------
(* The flow-consistency test, checked under SpecFlow *)

\* test_data_validation_post_etl has been executed and its statements succeeded
FlowChecked ==
    /\ Len(log["critical"]) >= 2
    /\ db.up
    /\ \A i \in DOMAIN validation_queries : db.count[validation_queries[i]].ok

staging_count == db.count["staging_sales"].v

fact_count == db.count["fact_sales"].v

\* |staging_count - fact_count| is more than 10% of staging_count
Over10Percent ==
    \/ (staging_count - fact_count) * 10 > staging_count
    \/ (fact_count - staging_count) * 10 > staging_count

\* C7 as stated: for staging_count > 0 and any fact_count >= 0 the verdict
\* is Warn above 10% variance and Pass otherwise, never Fail.
C7_NeverFails ==
    (FlowChecked /\ staging_count > 0) =>
        Status(log["critical"][2]) = (IF Over10Percent THEN "Warn" ELSE "Pass")

\* C7 as amended: for staging_count > 0 and fact_count > 0 the verdict is
\* Warn above 10% variance and Pass otherwise; for staging_count > 0 and
\* fact_count = 0 it is Fail.
C7_FlowConsistency ==
    (FlowChecked /\ staging_count > 0) =>
        Status(log["critical"][2]) =
            (IF fact_count = 0 THEN "Fail"
             ELSE IF Over10Percent THEN "Warn" ELSE "Pass")

C7_Witness ==
    /\ FlowChecked
    /\ staging_count = 10 /\ fact_count = 5
    /\ Status(log["critical"][2]) = "Warn"
    /\ Ran("critical")

-----------------------------------------------------------------------------
(* The source-data test, checked under SpecSource *)

SourceQueries == { "src_" \o t : t \in Range(source_tables) }

\* test_source_data_exists has been executed
SourceChecked == Len(log["smoke"]) >= 3

SourceCountsRead == db.up /\ \A q \in SourceQueries : db.count[q].ok

\* C8 as stated: a row count of 0 in any of the four source tables gives
\* Fail, and the check passes only when the counts are > 0.
C8_EmptyTableFails ==
    (SourceChecked /\ SourceCountsRead) =>
        /\ (\E q \in SourceQueries : db.count[q].v = 0)
              => Status(log["smoke"][3]) = "Fail"
        /\ Status(log["smoke"][3]) # "Fail"
              => \A q \in SourceQueries : db.count[q].v > 0

\* C8 as amended: the check is Fail iff a count statement fails or all four
\* tables are empty; an empty table beside a non-empty one gives Warn; it
\* is Pass iff all four counts are > 0.
C8_SourceData ==
    SourceChecked =>
        Status(log["smoke"][3]) =
            (IF ~SourceCountsRead THEN "Fail"
             ELSE IF \A q \in SourceQueries : db.count[q].v = 0 THEN "Fail"
             ELSE IF \E q \in SourceQueries : db.count[q].v = 0 THEN "Warn"
             ELSE "Pass")

C8_Witness ==
    /\ SourceChecked /\ SourceCountsRead
    /\ db.count["src_sales"].v = 0
    /\ db.count["src_customers"].v > 0
    /\ Status(log["smoke"][3]) = "Warn"
    /\ Ran("smoke") /\ passed["smoke"] = "True"

-----------------------------------------------------------------------------
(* The data-quality test, checked under SpecQuality *)

NullQueries == { "nulls_" \o t : t \in Range(null_checks) }

\* test_data_quality_checks has been executed
QualityChecked == Len(log["critical"]) >= 3

NullCountsRead == db.up /\ \A q \in NullQueries : db.count[q].ok

RefCountsRead == db.up /\ db.refint.ok

\* the entries of quality_checks about the fact table's references
RefEntries ==
    SelectSeq(log["critical"][3].lines, LAMBDA l : l.about = "fct_sales")

\* the verdict those entries carry: their worst leading symbol
RefVerdict ==
    IF \E i \in DOMAIN RefEntries : RefEntries[i].mark = "cross" THEN "Fail"
    ELSE IF \E i \in DOMAIN RefEntries : RefEntries[i].mark = "warning" THEN "Warn"
    ELSE IF \E i \in DOMAIN RefEntries : RefEntries[i].mark = "check" THEN "Pass"
    ELSE "None"

\* C9: the line of a key column is a pass when it has no NULL and a failure
\* when it has one or more; when some key column has NULLs the check fails
\* and the critical tier's passed flag is false.  (With the NULL counts
\* read, the check fails only then.)
C9_NullConstraint ==
    QualityChecked =>
        /\ NullCountsRead =>
              /\ \A i \in DOMAIN null_checks :
                    /\ log["critical"][3].lines[i].about = null_checks[i]
                    /\ log["critical"][3].lines[i].mark =
                          (IF db.count["nulls_" \o null_checks[i]].v = 0
                           THEN "check" ELSE "cross")
              /\ Status(log["critical"][3]) = "Fail"
                    <=> \E q \in NullQueries : db.count[q].v >= 1
        /\ (db.up /\ \E q \in NullQueries : db.count[q].ok /\ db.count[q].v >= 1) =>
              /\ Status(log["critical"][3]) = "Fail"
              /\ Ran("critical") => passed["critical"] = "False"

C9_Witness ==
    /\ QualityChecked /\ NullCountsRead /\ RefCountsRead
    /\ db.count["nulls_customers"].v = 1
    /\ \A q \in NullQueries \ {"nulls_customers"} : db.count[q].v = 0
    /\ db.refint.v = NoRefs
    /\ log["critical"][3].ret = "False"
    /\ passed["critical"] = "False"

\* C10: with the sentinel counts read, the referential-integrity verdict is
\* Pass iff all three are zero and Warn iff one of them is > 0; they never
\* change what the check returns, so without NULLs in the key columns the
\* check does not fail and the tier passes.
C10_ReferentialIntegrity ==
    (QualityChecked /\ NullCountsRead /\ RefCountsRead) =>
        /\ RefVerdict = "Pass" <=>
              /\ db.refint.v.missing_products = 0
              /\ db.refint.v.missing_customers = 0
              /\ db.refint.v.missing_stores = 0
        /\ RefVerdict = "Warn" <=>
              \/ db.refint.v.missing_products > 0
              \/ db.refint.v.missing_customers > 0
              \/ db.refint.v.missing_stores > 0
        /\ (\A q \in NullQueries : db.count[q].v = 0) =>
              /\ Status(log["critical"][3]) # "Fail"
              /\ Status(log["critical"][3]) = RefVerdict
              /\ Ran("critical") => passed["critical"] = "True"

C10_Witness ==
    /\ QualityChecked /\ NullCountsRead /\ RefCountsRead
    /\ db.refint.v.missing_products = 1
    /\ db.refint.v.missing_stores = 1
    /\ RefVerdict = "Warn"
    /\ Status(log["critical"][3]) = "Warn"
    /\ passed["critical"] = "True"

-----------------------------------------------------------------------------
(* Properties of test_performance_benchmarks, checked under SpecPerf *)

PerfChecked == Len(log["extended"]) >= 3

Raised(p) == ~execute_query(db, db.perf[p]).ok

TookOver(p) == ~Raised(p) /\ db.perf[p].v > SlowThreshold

\* C11: the performance check runs each of the three benchmark statements
\* once, in order, whether or not an earlier one raised; it is Fail iff at
\* least one of them raised, otherwise Warn iff one took longer than the
\* threshold, and Pass when all stayed at or below it.
C11_Benchmarks ==
    PerfChecked =>
        LET e == log["extended"][3]
        IN  /\ Len(e.lines) = Len(performance_tests)
            /\ \A i \in DOMAIN performance_tests :
                  /\ e.lines[i].about = performance_tests[i]
                  /\ e.lines[i].mark = "cross" <=> Raised(performance_tests[i])
            /\ Status(e) = "Fail" <=> \E p \in Range(performance_tests) : Raised(p)
            /\ Status(e) = "Warn" <=>
                  /\ \A p \in Range(performance_tests) : ~Raised(p)
                  /\ \E p \in Range(performance_tests) : TookOver(p)
            /\ Status(e) = "Pass" <=>
                  \A p \in Range(performance_tests) :
                      ~Raised(p) /\ db.perf[p].v <= SlowThreshold

\* the first benchmark raised, the second ran exactly the threshold, the third
\* ran and was recorded all the same
C11_Witness ==
    /\ PerfChecked
    /\ Raised(performance_tests[1])
    /\ ~Raised(performance_tests[2]) /\ db.perf[performance_tests[2]].v = SlowThreshold
    /\ TookOver(performance_tests[3])
    /\ log["extended"][3].lines[3].mark = "check"
    /\ Status(log["extended"][3]) = "Fail"

-----------------------------------------------------------------------------
(* Properties of test_scd_functionality, checked under SpecScd *)

ScdChecked == Len(log["critical"]) >= 4

ScdQueriesSucceed ==
    execute_query(db, db.scd2).ok /\ execute_query(db, db.count["3nf_customers"]).ok

\* the lines of the check about one of the two entities
About(e, entity) == SelectSeq(e.lines, LAMBDA l : l.about = entity)

\* C12: when both statements of the SCD check succeed, the check is Pass iff
\* the customer count is above zero and Fail otherwise; its SCD-2 part logs
\* no failure when there are product versions, whether or not any of them is
\* a historical one, so the product counts never change the verdict.
C12_Scd ==
    (ScdChecked /\ ScdQueriesSucceed) =>
        LET e == log["critical"][4]
            customer_count == db.count["3nf_customers"].v
            stats == db.scd2.v
        IN  /\ Status(e) = (IF customer_count > 0 THEN "Pass" ELSE "Fail")
            /\ About(e, "customers") # <<>>
            /\ About(e, "customers")[1].mark = "cross" <=> customer_count = 0
            /\ stats.total_products > 0 =>
                  /\ About(e, "products") # <<>>
                  /\ \A i \in DOMAIN About(e, "products") :
                        About(e, "products")[i].mark # "cross"

\* products without any historical version, and customers: the check passed
C12_Witness ==
    /\ ScdChecked /\ ScdQueriesSucceed
    /\ db.scd2.v.total_products > 0
    /\ db.scd2.v.inactive_products = 0
    /\ db.count["3nf_customers"].v > 0
    /\ Status(log["critical"][4]) = "Pass"

-----------------------------------------------------------------------------
(* Properties of the command line, checked under Spec *)

KnownArg == arg \in Tiers \cup {"none"}

Exited == pc = "exit"

\* C13: the exit code of the process tells the verdict: a full run ends with
\* code 0 iff run_all_tests returned True, and an unknown argument ends the
\* process with a code other than 0 before any check has run.
C13_ExitCodeTellsVerdict ==
    Exited =>
        /\ FullRun => (exitCode = <<0>> <=> success = "True")
        /\ ~KnownArg =>
              /\ exitCode # <<0>>
              /\ \A t \in Tiers : log[t] = <<>> /\ ~Ran(t)

Unreachable == ~db.up

\* the tier a run of a known argument executes first
FirstRun == FirstTier(arg)

\* C14 as claimed: when the database cannot be reached no tier executes, no
\* check of any tier is run and no tier verdict is produced.
C14_NoTierExecutes ==
    Unreachable => \A t \in Tiers : log[t] = <<>> /\ ~Ran(t)

\* C14: when the database cannot be reached nothing aborts the run: every
\* check that is executed fails, every tier that is run gets the verdict
\* False, the first tier of the run executes all of its checks, and in a
\* full run that tier is the smoke tier, whose failure keeps the critical
\* and extended checks from running and makes the run's verdict False.
C14_UnreachableFailsTier ==
    Unreachable =>
        /\ \A t \in Tiers : \A i \in DOMAIN log[t] : Status(log[t][i]) = "Fail"
        /\ \A t \in Tiers : Ran(t) => passed[t] = "False"
        /\ (KnownArg /\ Exited) =>
              /\ Len(log[FirstRun]) = NChecks
              /\ passed[FirstRun] = "False"
              /\ success = "False"
        /\ FullRun => log["critical"] = <<>> /\ log["extended"] = <<>>

\* a full run against a server that is down ended after four failed smoke checks
C14_Witness ==
    /\ Unreachable /\ FullRun /\ Exited
    /\ Len(log["smoke"]) = NChecks
    /\ passed["smoke"] = "False"
    /\ success = "False"

-----------------------------------------------------------------------------
(* Properties of the checks as readers of the warehouse, checked under Spec *)

\* the check the tier loop has just executed, if any
LastDone == pc = "tier" /\ idx > 1

LastEntry == log[cur][idx - 1]

\* a second evaluation of the last check yields the status of the first
SameAgain ==
    \A d \in Effects(LastEntry.name, db) :
        Status(Entry(LastEntry.name, Call(LastEntry.name, d), d # db))
            = Status(LastEntry)

-----------------------------------------------------------------------------
(* Properties of the executor, checked under SpecExecutor *)

\* the call has left execute_query/execute_procedure, by return or by raise
CallLeft == executor.pc \in {"idle", "caller"}

\* C16: every call opens a connection of its own, which is released on every
\* way out of the call, so that no connection is open once a call has been
\* left; and the caller sees an exception exactly when the call failed.
C16_ConnectionsReleased ==
    /\ executor.pc = "with" => executor.held = 1
    /\ CallLeft => executor.open = 0
    /\ executor.pc = "caller" => executor.path # "success"
    /\ (executor.pc = "idle" /\ executor.calls > 0 /\ executor.path # "success")
          => executor.held = 0

-----------------------------------------------------------------------------
(* Properties of an interrupted run, checked under SpecInterrupt *)

Interrupted == pc = "interrupted"

\* the test at position i of tier t was entered and never returned
Abandoned(t, i) == i \in DOMAIN log[t] /\ log[t][i].ret = "Interrupted"

-----------------------------------------------------------------------------
(* Properties of a single-tier run, checked under Spec *)

\* the smoke tier would fail on the warehouse as it is
SmokeWouldFail ==
    \E i \in DOMAIN tests["smoke"] : ~Recorded(Call(tests["smoke"][i], db))

\* C18: with the argument critical or extended only the checks of that tier
\* run: no smoke check is executed and no other tier gets a verdict, all
\* four checks of the tier run, the ETL procedure call among them, whatever
\* the smoke tier would have found, and the tier's verdict is the run's; the
\* gate is only ever reached by a full run.
C18_SingleTierBypassesGate ==
    /\ pc = "gate" => FullRun
    /\ arg \in {"critical", "extended"} =>
          /\ \A t \in Tiers \ {arg} : log[t] = <<>> /\ results[t] = <<>> /\ ~Ran(t)
          /\ \A i \in DOMAIN log[arg] : log[arg][i].name = tests[arg][i]
          /\ Exited =>
                /\ Len(log[arg]) = NChecks
                /\ log[arg][1].name \in CallsEtl
                /\ etlCalls = 1
                /\ success = passed[arg]

\* the critical tier ran, and its ETL call was committed, on a warehouse on
\* which the smoke tier fails
C18_Witness ==
    /\ arg = "critical" /\ Exited
    /\ SmokeWouldFail
    /\ Len(log["critical"]) = NChecks
    /\ log["critical"][1].ret = "True"
    /\ etlCalls = 1
    /\ log["smoke"] = <<>>

-----------------------------------------------------------------------------
(* Properties of the ETL invocation, checked under Spec *)

\* C19: in a full run bl_cl.sp_run_full_etl is not called before the smoke
\* tier has passed, hence never when it fails, and a full run in which the
\* smoke tier passed has called it exactly once when it ends.
C19_EtlCalledOnce ==
    FullRun =>
        /\ etlCalls > 0 => passed["smoke"] = "True"
        /\ (Exited /\ passed["smoke"] = "True") => etlCalls = 1

=============================================================================
